---- MODULE Spec2Model ----
(***************************************************************************)
(* Model of the from_tuple derive macros.                                  *)
(*                                                                         *)
(*   src/src/lib.rs                     the two derive entry points        *)
(*   src/src/strictly_heterogeneous.rs  verify_unique_field_types,         *)
(*                                      permute, impl_from_tuple           *)
(*                                                                         *)
(* One behaviour is one expansion of one derive on one struct with named   *)
(* fields.  Vectors and slices keep the source's 0-based indexing: they    *)
(* are functions over 0..(len-1).  Vec::push targets (impls) and token     *)
(* streams are TLA+ sequences.                                             *)
(***************************************************************************)
EXTENDS Integers, Sequences, FiniteSets, TLC

\* Largest number of fields of the struct derived on.
MaxFields == 4

\* The syntactic types (syn::Type, compared token by token) a field may be
\* declared with.  c_uchar is std::os::raw::c_uchar, an alias of u8.
TypeNames == {"String", "i32", "usize", "u8", "c_uchar"}

\* What the compiler resolves a syntactic type to (lib.rs:72-74: c_uchar and
\* u8 are the same actual type).  The macro never sees this.
ResolvedType(ty) == IF ty = "c_uchar" THEN "u8" ELSE ty

\* Names of the declared fields, by declaration position.
FieldNames == <<"message", "time", "counter", "offset", "len">>

IdentAt(i) == FieldNames[i + 1]

Derives == {"FromStrictlyHeterogeneousTuple", "OrderDependentFromTuple"}

VARIABLES
    derive,   \* which derive macro is being expanded
    fields,   \* the struct's fields in declaration order: [ident, ty]
    pc,       \* position in the expansion
    vi,       \* verify_unique_field_types: index of the next field of the for loop
    seen,     \* verify_unique_field_types: HashSet of types seen
    error,    \* verify_unique_field_types: Option<Error>; <<>> is None
    data,     \* permute: working Vec<&Field>, as indices into fields
    idx,      \* permute: idx
    stack,    \* permute: stack
    impls,    \* from_strictly_heterogeneous_tuple: Vec of generated impls
    calls,    \* history: the orderings handed to permute's callback, in order
    output    \* the TokenStream the derive returns

vars == <<derive, fields, pc, vi, seen, error, data, idx, stack, impls, calls, output>>

Len0(f) == Cardinality(DOMAIN f)

NoOutput == [kind |-> "none", errors |-> <<>>, impls |-> <<>>]

----------------------------------------------------------------------------
\* strictly_heterogeneous.rs

\* quote's #(#x),* : the items separated by commas, with no trailing comma.
RECURSIVE join_comma(_, _)
join_comma(items, i) ==
    IF i >= Len0(items) THEN <<>>
    ELSE IF i = Len0(items) - 1 THEN <<items[i]>>
    ELSE <<items[i], ",">> \o join_comma(items, i + 1)

\* How the compiler reads a comma-separated token stream: its elements, each a
\* run of tokens up to the next comma (a trailing comma ends the last one).
RECURSIVE split_comma(_)
split_comma(ts) ==
    IF ts = <<>> THEN <<>>
    ELSE LET stops == {k \in 1..Len(ts) : ts[k] = ","}
             k == IF stops = {} THEN Len(ts) + 1
                  ELSE CHOOSE m \in stops : \A o \in stops : m <= o
         IN  <<SubSeq(ts, 1, k - 1)>> \o split_comma(SubSeq(ts, k + 1, Len(ts)))

\* How the compiler reads ( ts ) as a type or a pattern: () is the empty
\* tuple, anything with a comma is a tuple, and one element with no comma is
\* that element in parentheses, not a 1-tuple.
paren_shape(ts) ==
    IF ts # <<>> /\ \A k \in 1..Len(ts) : ts[k] # "," THEN "value" ELSE "tuple"

\* Ident::new(&format!("d{}", i), Span::call_site())
dvar(i) == "d" \o ToString(i)

\* quote! { impl From<#tuple_type> for #struct_ident { fn from(tuple: #tuple_type) {
\*   let #destructed = tuple; Self { #(#idents: #dvars),* } } } }
\* with tuple_type = (#(#types),*) and destructed = (#(#dvars),*): the token
\* streams between the parentheses are kept.  flds is the slice handed in.
impl_from_tuple(flds) ==
    LET n == Len0(flds)
        dvars == [i \in 0..(n - 1) |-> dvar(i)]
        idents == [i \in 0..(n - 1) |-> flds[i].ident]
        types == [i \in 0..(n - 1) |-> flds[i].ty]
    IN  [tuple_type |-> join_comma(types, 0),
         destructed |-> join_comma(dvars, 0),
         init |-> [i \in 0..(n - 1) |-> [ident |-> idents[i], dvar |-> dvars[i]]]]

\* Error::new_spanned(field, "Field types must be unique ..."); the message's
\* backquotes around FromTuple are left out (not a TLA+ string character).
new_spanned(i) ==
    [span |-> i,
     message |-> "Field types must be unique in a struct deriving FromTuple"]

\* Fault variant of combine: only the first error is kept.
combine_keep_first(err, new_error) == IF err = <<>> THEN <<new_error>> ELSE err

\* match error { None => error = Some(new_error), Some(e) => e.combine(new_error) }
combine(err, new_error) == Append(err, new_error)

\* HashSet::insert returns true iff the value was not present.
insert_new(set, ty) == ty \notin set

\* Fault variant of swap: one side of the exchange is lost.
swap_clobber(d, a, b) == [d EXCEPT ![a] = d[b]]

\* data.swap(a, b)
swap(d, a, b) == [d EXCEPT ![a] = d[b], ![b] = d[a]]

\* Fault variant of swap_with: always 0, whatever the parity of idx.
swap_with_zero(i, stk) == 0

\* The first argument of the swap: 0 when idx is even, stack[idx] otherwise.
swap_with(i, stk) == IF i % 2 = 0 THEN 0 ELSE stk[i]

\* Fault variant of exhausted: > in place of >=.
exhausted_strict(stk, i) == stk[i] > i

\* The test of line 81: stack[idx] >= idx.
exhausted(stk, i) == stk[i] >= i

\* fields.iter().collect::<Vec<_>>(): references to the fields, in order.
collect(flds) == [i \in DOMAIN flds |-> i]

\* The slice of fields the callback sees for a working order d.
deref(d) == [i \in DOMAIN d |-> fields[d[i]]]

----------------------------------------------------------------------------

Init ==
    /\ derive \in Derives
    /\ \E n \in 0..MaxFields :
         \E tys \in [0..(n - 1) -> TypeNames] :
            fields = [i \in 0..(n - 1) |-> [ident |-> IdentAt(i), ty |-> tys[i]]]
    /\ pc = "start"
    /\ vi = 0
    /\ seen = {}
    /\ error = <<>>
    /\ data = <<>>
    /\ idx = 0
    /\ stack = <<>>
    /\ impls = <<>>
    /\ calls = <<>>
    /\ output = NoOutput

\* lib.rs:109-113 and strictly_heterogeneous.rs:39-41: enter the derive and
\* verify_unique_field_types.
StrictEnter ==
    /\ pc = "start"
    /\ derive = "FromStrictlyHeterogeneousTuple"
    /\ seen' = {}
    /\ error' = <<>>
    /\ vi' = 0
    /\ pc' = "verify"
    /\ UNCHANGED <<derive, fields, data, idx, stack, impls, calls, output>>

\* One iteration of `for field in fields`.
VerifyStep ==
    /\ pc = "verify"
    /\ vi < Len0(fields)
    /\ IF insert_new(seen, fields[vi].ty)
          THEN /\ seen' = seen \cup {fields[vi].ty}
               /\ error' = error
          ELSE /\ seen' = seen
               /\ error' = combine(error, new_spanned(vi))
    /\ vi' = vi + 1
    /\ UNCHANGED <<derive, fields, pc, data, idx, stack, impls, calls, output>>

\* match error { None => Ok(()) }: the derive goes on to permute.
VerifyOk ==
    /\ pc = "verify"
    /\ vi >= Len0(fields)
    /\ error = <<>>
    /\ pc' = "permute"
    /\ UNCHANGED <<derive, fields, vi, seen, error, data, idx, stack, impls, calls, output>>

\* Fault variant of VerifyErr: the early return is missing and the derive
\* goes on to permute.
VerifyErrNoReturn ==
    /\ pc = "verify"
    /\ vi >= Len0(fields)
    /\ error # <<>>
    /\ pc' = "permute"
    /\ UNCHANGED <<derive, fields, vi, seen, error, data, idx, stack, impls, calls, output>>

\* match error { Some(error) => Err(error) }: the derive returns
\* error.to_compile_error().
VerifyErr ==
    /\ pc = "verify"
    /\ vi >= Len0(fields)
    /\ error # <<>>
    /\ output' = [kind |-> "compile_error", errors |-> error, impls |-> <<>>]
    /\ pc' = "done"
    /\ UNCHANGED <<derive, fields, vi, seen, error, data, idx, stack, impls, calls>>

\* The callback of lib.rs:118-120 applied to the working order d.
callback(d, acc) == Append(acc, impl_from_tuple(deref(d)))

\* Fault variant of PermuteStart: the callback is not called before the loop.
PermuteStartNoFirstCall ==
    /\ pc = "permute"
    /\ data' = collect(fields)
    /\ idx' = 0
    /\ stack' = [i \in DOMAIN data' |-> 0]
    /\ pc' = "loop"
    /\ UNCHANGED <<derive, fields, vi, seen, error, impls, calls, output>>

\* permute, lines 73-79: collect, first callback, idx and stack.
PermuteStart ==
    /\ pc = "permute"
    /\ data' = collect(fields)
    /\ impls' = callback(data', impls)
    /\ calls' = Append(calls, data')
    /\ idx' = 0
    /\ stack' = [i \in DOMAIN data' |-> 0]
    /\ pc' = "loop"
    /\ UNCHANGED <<derive, fields, vi, seen, error, output>>

\* Fault variant of PermuteAdvance: idx is not incremented.
PermuteAdvanceNoIncrement ==
    /\ pc = "loop"
    /\ idx < Len0(data)
    /\ exhausted(stack, idx)
    /\ stack' = [stack EXCEPT ![idx] = 0]
    /\ UNCHANGED <<derive, fields, pc, vi, seen, error, data, idx, impls, calls, output>>

\* permute, lines 81-83.
PermuteAdvance ==
    /\ pc = "loop"
    /\ idx < Len0(data)
    /\ exhausted(stack, idx)
    /\ stack' = [stack EXCEPT ![idx] = 0]
    /\ idx' = idx + 1
    /\ UNCHANGED <<derive, fields, pc, vi, seen, error, data, impls, calls, output>>

\* permute, lines 84-95.
PermuteSwap ==
    /\ pc = "loop"
    /\ idx < Len0(data)
    /\ ~exhausted(stack, idx)
    /\ data' = swap(data, swap_with(idx, stack), idx)
    /\ stack' = [stack EXCEPT ![idx] = stack[idx] + 1]
    /\ idx' = 0
    /\ impls' = callback(data', impls)
    /\ calls' = Append(calls, data')
    /\ UNCHANGED <<derive, fields, pc, vi, seen, error, output>>

\* The while loop ends, permute returns, quote! { #(#impls)* }.
PermuteReturn ==
    /\ pc = "loop"
    /\ ~(idx < Len0(data))
    /\ output' = [kind |-> "impls", errors |-> <<>>, impls |-> impls]
    /\ pc' = "done"
    /\ UNCHANGED <<derive, fields, vi, seen, error, data, idx, stack, impls, calls>>

----------------------------------------------------------------------------
\* lib.rs, derive_from

\* The fold of lines 173-181 / 182-190: every element followed by a comma.
RECURSIVE fold_comma(_, _)
fold_comma(items, i) ==
    IF i >= Len0(items) THEN <<>>
    ELSE <<items[i], ",">> \o fold_comma(items, i + 1)

fields_tys_ts(flds) == fold_comma([i \in DOMAIN flds |-> flds[i].ty], 0)

\* Fault variant of fields_names_ts: the names are folded in reverse order.
fields_names_ts_rev(flds) ==
    fold_comma([i \in DOMAIN flds |-> flds[Len0(flds) - 1 - i].ident], 0)

fields_names_ts(flds) == fold_comma([i \in DOMAIN flds |-> flds[i].ident], 0)

\* quote! { impl From<(#fields_tys_ts)> for #struct_name {
\*   fn from((#fields_names_ts): (#fields_tys_ts)) -> Self { Self { #fields_names_ts } } } }
derive_from_impl(flds) ==
    [tuple_type |-> fields_tys_ts(flds),
     pattern |-> fields_names_ts(flds),
     init |-> fields_names_ts(flds)]

DeriveFrom ==
    /\ pc = "start"
    /\ derive = "OrderDependentFromTuple"
    /\ output' = [kind |-> "impls", errors |-> <<>>, impls |-> <<derive_from_impl(fields)>>]
    /\ pc' = "done"
    /\ UNCHANGED <<derive, fields, vi, seen, error, data, idx, stack, impls, calls>>

----------------------------------------------------------------------------
\* What the generated code does when it is called.  An argument is either a
\* tuple (a function over 0..(n-1) of values) or one bare value; a value
\* carries its type.  The call is accepted when the argument has the type the
\* impl names; the record built is a function from field names to values.

TupleArg(elems) == [shape |-> "tuple", elems |-> elems, value |-> <<>>]

ValueArg(v) == [shape |-> "value", elems |-> <<>>, value |-> v]

\* The type the compiler resolves ( tys ) to: its shape and the resolved type
\* of each element (an alias and its target are one type).
resolved(tys) ==
    LET elts == split_comma(tys)
    IN  [shape |-> paren_shape(tys),
         elems |-> [i \in 1..Len(elts) |-> ResolvedType(elts[i][1])]]

\* The argument has the type ( tys ), types compared as the compiler resolves
\* them.
has_type(arg, tys) ==
    LET want == resolved(tys)
    IN  /\ arg.shape = want.shape
        /\ IF arg.shape = "tuple"
              THEN /\ DOMAIN arg.elems = 0..(Len(want.elems) - 1)
                   /\ \A i \in 0..(Len(want.elems) - 1) :
                         ResolvedType(arg.elems[i].ty) = want.elems[i + 1]
              ELSE ResolvedType(arg.value.ty) = want.elems[1]

\* The derive's output compiles: it is impls, not a compile error, and no two
\* of them implement From for the same resolved type (E0119 otherwise, which
\* rejects the output as a whole).  Before the derive has returned there is
\* no generated code.
compiles(out) ==
    /\ out.kind = "impls"
    /\ Cardinality({resolved(out.impls[k].tuple_type) : k \in 1..Len(out.impls)})
          = Len(out.impls)

\* The variables the pattern ( pat ) binds when matched against the argument.
bind(pat, arg) ==
    LET elts == split_comma(pat)
    IN  IF paren_shape(pat) = "tuple"
           THEN [nm \in {elts[k][1] : k \in 1..Len(elts)} |->
                    arg.elems[(CHOOSE k \in 1..Len(elts) : elts[k][1] = nm) - 1]]
           ELSE [nm \in {elts[1][1]} |-> arg.value]

\* strictly_heterogeneous.rs:27-33: fn from(tuple: #tuple_type) -> Self {
\* let #destructed = tuple; Self { #(#idents: #dvars),* } }
from_destructed(conv, arg) ==
    LET accepted == has_type(arg, conv.tuple_type) /\ compiles(output)
        bound == bind(conv.destructed, arg)
        names == {conv.init[i].ident : i \in DOMAIN conv.init}
    IN  [accepted |-> accepted,
         record |-> IF ~accepted THEN <<>>
                    ELSE [nm \in names |->
                            bound[conv.init[CHOOSE i \in DOMAIN conv.init :
                                                conv.init[i].ident = nm].dvar]]]

\* lib.rs:196-198: fn from((#fields_names_ts): (#fields_tys_ts)) -> Self
\* { Self { #fields_names_ts } }
from_pattern(conv, arg) ==
    LET accepted == has_type(arg, conv.tuple_type) /\ compiles(output)
        bound == bind(conv.pattern, arg)
        ini == split_comma(conv.init)
    IN  [accepted |-> accepted,
         record |-> IF ~accepted THEN <<>>
                    ELSE [nm \in {ini[k][1] : k \in 1..Len(ini)} |-> bound[nm]]]

----------------------------------------------------------------------------

Next ==
    \/ StrictEnter
    \/ VerifyStep
    \/ VerifyOk
    \/ VerifyErr
    \/ PermuteStart
    \/ PermuteAdvance
    \/ PermuteSwap
    \/ PermuteReturn
    \/ DeriveFrom

Spec == Init /\ [][Next]_vars

\* The expansion is one synchronous call: it runs until it returns.
FairSpec == Init /\ [][Next]_vars /\ WF_vars(Next)

----------------------------------------------------------------------------
\* Vocabulary of the properties.

NumFields == Len0(fields)

Strict == derive = "FromStrictlyHeterogeneousTuple"

RECURSIVE Fact(_)
Fact(n) == IF n <= 1 THEN 1 ELSE n * Fact(n - 1)

\* All orderings of n field references.
AllOrderings(n) ==
    {p \in [0..(n - 1) -> 0..(n - 1)] : \A i, j \in 0..(n - 1) : p[i] = p[j] => i = j}

DeclaredOrder == [i \in 0..(NumFields - 1) |-> i]

CallSet == {calls[k] : k \in 1..Len(calls)}

\* The while loop has ended (idx reached the length), permute not yet returned.
LoopEnded == pc = "loop" /\ idx >= Len0(data)

\* permute has returned and the derive has produced its impls.
PermuteReturned == Strict /\ pc = "done" /\ output.kind = "impls"

\* verify_unique_field_types has returned.
VerifyReturned == Strict /\ pc \in {"permute", "loop", "done"}

ValidationFailed == Strict /\ pc = "done" /\ output.kind = "compile_error"

\* The field types are pairwise distinct as the compiler resolves them.
ResolvedTypesDistinct ==
    \A i, j \in 0..(NumFields - 1) :
        ResolvedType(fields[i].ty) = ResolvedType(fields[j].ty) => i = j

TypesDistinct ==
    \A i, j \in 0..(NumFields - 1) : fields[i].ty = fields[j].ty => i = j

\* The fields whose type is the type of an earlier field.
DuplicateFields ==
    {i \in 0..(NumFields - 1) : \E j \in 0..(i - 1) : fields[j].ty = fields[i].ty}

----------------------------------------------------------------------------
\* C1: once permute's loop has ended, the orderings handed to the callback
\* are the N! orderings of the fields, each exactly once: the number of calls
\* is N! (1 for N = 0 and N = 1), no ordering occurs twice, none is missing.
C1_EveryOrderingExactlyOnce ==
    (LoopEnded \/ PermuteReturned) =>
        /\ Len(calls) = Fact(NumFields)
        /\ CallSet = AllOrderings(NumFields)
        /\ Cardinality(CallSet) = Len(calls)

C1_Witness ==
    /\ PermuteReturned
    /\ NumFields = 4
    /\ Len(calls) = 24

\* C2: the first ordering handed to the callback is the declared order, taken
\* before any swap (the working copy is still the declared order while only
\* one call has been made), and the first impl collected is the one for the
\* declared order.
C2_FirstCallIsDeclaredOrder ==
    calls # <<>> =>
        /\ calls[1] = DeclaredOrder
        /\ (Len(calls) = 1 => data = DeclaredOrder)
        /\ impls # <<>>
        /\ Len(split_comma(impls[1].tuple_type)) = NumFields
        /\ DOMAIN impls[1].init = 0..(NumFields - 1)
        /\ \A i \in 0..(NumFields - 1) :
              /\ split_comma(impls[1].tuple_type)[i + 1] = <<fields[i].ty>>
              /\ split_comma(impls[1].destructed)[i + 1] = <<impls[1].init[i].dvar>>
              /\ impls[1].init[i].ident = fields[i].ident

C2_Witness ==
    /\ Len(calls) >= 2
    /\ calls[2] # calls[1]
    /\ NumFields >= 3

\* C3: when verify_unique_field_types returns it has scanned every field, and
\* its errors are, in declaration order, exactly one for each field whose
\* type equals the type of an earlier field; it succeeds iff the field types
\* are pairwise distinct.
C3_OneErrorPerDuplicateField ==
    VerifyReturned =>
        /\ vi = NumFields
        /\ Len(error) = Cardinality(DuplicateFields)
        /\ {error[k].span : k \in 1..Len(error)} = DuplicateFields
        /\ \A j, k \in 1..Len(error) : j < k => error[j].span < error[k].span
        /\ ValidationFailed <=> ~TypesDistinct
        /\ ValidationFailed => output.errors = error

C3_Witness ==
    /\ ValidationFailed
    /\ NumFields = 3
    /\ fields[0].ty = fields[1].ty
    /\ fields[1].ty = fields[2].ty
    /\ Len(output.errors) = 2
    /\ output.errors[1].span = 1
    /\ output.errors[2].span = 2

\* C4: in the FromStrictlyHeterogeneousTuple derive nothing of permute or
\* impl_from_tuple has run unless validation has finished without an error;
\* with an error the derive returns only the error, with no impl; impls are
\* returned only when there is no error.
C4_ValidationGatesEnumeration ==
    Strict =>
        /\ (pc \in {"permute", "loop"} \/ calls # <<>> \/ impls # <<>> \/ data # <<>>) =>
              /\ vi = NumFields
              /\ error = <<>>
              /\ TypesDistinct
        /\ error # <<>> =>
              /\ pc \in {"verify", "done"}
              /\ calls = <<>>
              /\ impls = <<>>
        /\ ValidationFailed =>
              /\ output.errors = error
              /\ error # <<>>
              /\ output.impls = <<>>
        /\ output.kind = "impls" => (error = <<>> /\ output.impls = impls)

C4_Witness ==
    /\ ValidationFailed
    /\ NumFields >= 2
    /\ calls = <<>>

\* C5: when the validator returns, every field whose resolved type (aliases
\* resolved) equals the resolved type of an earlier field has an error.
C5_AliasesReportedAsDuplicates ==
    VerifyReturned =>
        \A i \in 0..(NumFields - 1) :
            (\E j \in 0..(i - 1) : ResolvedType(fields[j].ty) = ResolvedType(fields[i].ty))
                => \E k \in 1..Len(error) : error[k].span = i

\* The tuple whose position i holds a value of the type of the i-th field
\* of the ordering ord, tagged with the position it came from.
TupleFor(ord) ==
    TupleArg([i \in 0..(NumFields - 1) |-> [ty |-> fields[ord[i]].ty, from |-> i]])

\* The k-th impl returned is the conversion from the tuple of the field types
\* in the k-th ordering presented: it names those types in that order, binds
\* position i to the name of the i-th field of the ordering, accepts the tuple
\* of those types and puts each of its values, unchanged, into the field whose
\* declared type is the value's type.
ImplConvertsItsTuple(k) ==
    LET conv == output.impls[k]
        ord == calls[k]
        tys == split_comma(conv.tuple_type)
        pats == split_comma(conv.destructed)
        tuple == TupleFor(ord)
        res == from_destructed(conv, tuple)
    IN  /\ Len(tys) = NumFields
        /\ Len(pats) = NumFields
        /\ DOMAIN conv.init = 0..(NumFields - 1)
        /\ \A i \in 0..(NumFields - 1) :
              /\ tys[i + 1] = <<fields[ord[i]].ty>>
              /\ pats[i + 1] = <<conv.init[i].dvar>>
              /\ conv.init[i].ident = fields[ord[i]].ident
        /\ res.accepted
        /\ DOMAIN res.record = {fields[i].ident : i \in 0..(NumFields - 1)}
        /\ \A i \in 0..(NumFields - 1) :
              /\ res.record[fields[ord[i]].ident] = tuple.elems[i]
              /\ res.record[fields[i].ident].ty = fields[i].ty

\* Every ordering of the field types has an impl naming the types in that order.
EveryOrderingHasImpl ==
    \A p \in AllOrderings(NumFields) :
        \E k \in 1..Len(output.impls) :
            split_comma(output.impls[k].tuple_type)
                = [i \in 1..NumFields |-> <<fields[p[i - 1]].ty>>]

\* C6: for a struct with pairwise distinctly typed fields, in what the strict
\* derive returns, for every ordering of the fields, the impl for that
\* ordering has as tuple types the field types in that order and binds tuple
\* position i to the name of the i-th field of the ordering; building the
\* record from the tuple puts into each field, unchanged, the tuple value
\* whose type is the field's declared type.
C6_ImplMatchesItsOrdering ==
    (PermuteReturned /\ ResolvedTypesDistinct) =>
        /\ Len(output.impls) = Len(calls)
        /\ \A k \in 1..Len(output.impls) : ImplConvertsItsTuple(k)
        /\ EveryOrderingHasImpl

\* The same for every such struct but the one with exactly one field.
C6_HoldsButForOneField ==
    (PermuteReturned /\ ResolvedTypesDistinct /\ NumFields # 1) =>
        /\ Len(output.impls) = Len(calls)
        /\ \A k \in 1..Len(output.impls) : ImplConvertsItsTuple(k)
        /\ EveryOrderingHasImpl

\* With exactly one field the impl is From<T> for the bare type T: the
\* 1-tuple is rejected and the bare value is what converts, under either name
\* of its type.
C6_OneFieldTakesBareValue ==
    (PermuteReturned /\ NumFields = 1) =>
        /\ Len(output.impls) = 1
        /\ paren_shape(output.impls[1].tuple_type) = "value"
        /\ ~from_destructed(output.impls[1], TupleFor(calls[1])).accepted
        /\ \A ty \in TypeNames :
              LET v == [ty |-> ty, from |-> 0]
                  res == from_destructed(output.impls[1], ValueArg(v))
              IN  /\ res.accepted <=> ResolvedType(ty) = ResolvedType(fields[0].ty)
                  /\ res.accepted => res.record[fields[0].ident] = v

\* A struct the validator lets through although two of its fields resolve to
\* one type gets overlapping impls: the output does not compile and no impl
\* converts anything.
C6_AliasedFieldsDoNotCompile ==
    (PermuteReturned /\ ~ResolvedTypesDistinct) =>
        /\ ~compiles(output)
        /\ \A k \in 1..Len(output.impls) :
              ~from_destructed(output.impls[k], TupleFor(calls[k])).accepted

\* The other name of the same type, where the type has one.
OtherName(ty) == IF ty = "u8" THEN "c_uchar" ELSE IF ty = "c_uchar" THEN "u8" ELSE ty

\* C7: the OrderDependentFromTuple derive runs no validation and no
\* permutation and returns exactly one impl, also when fields share a type;
\* its tuple types are the field types in declared order and, built from a
\* tuple, the i-th declared field holds the tuple's i-th value (also when the
\* tuple's values are written with the other name of a field's type).
C7_OrderDependentSingleImpl ==
    (derive = "OrderDependentFromTuple") =>
        /\ vi = 0 /\ seen = {} /\ error = <<>>
        /\ calls = <<>> /\ impls = <<>> /\ data = <<>>
        /\ output.kind # "compile_error"
        /\ pc = "done" =>
              /\ output.kind = "impls"
              /\ Len(output.impls) = 1
              /\ LET conv == output.impls[1]
                     tys == split_comma(conv.tuple_type)
                     tuple == TupleFor(DeclaredOrder)
                     res == from_pattern(conv, tuple)
                     rec == res.record
                 IN  /\ paren_shape(conv.tuple_type) = "tuple"
                     /\ res.accepted
                     /\ Len(tys) = NumFields
                     /\ \A i \in 0..(NumFields - 1) : tys[i + 1] = <<fields[i].ty>>
                     /\ DOMAIN rec = {fields[i].ident : i \in 0..(NumFields - 1)}
                     /\ \A i \in 0..(NumFields - 1) : rec[fields[i].ident] = tuple.elems[i]
                     /\ LET alt == TupleArg([i \in 0..(NumFields - 1) |->
                                          [ty |-> OtherName(fields[i].ty), from |-> i]])
                            got == from_pattern(conv, alt)
                        IN  /\ got.accepted
                            /\ \A i \in 0..(NumFields - 1) :
                                  got.record[fields[i].ident] = alt.elems[i]

C7_Witness ==
    /\ derive = "OrderDependentFromTuple"
    /\ pc = "done"
    /\ NumFields = 3
    /\ fields[0].ty = fields[2].ty
    /\ fields[0].ty # fields[1].ty
    /\ Len(output.impls) = 1

\* C8: once permute's loop is running it ends (idx reaches N); from then on
\* the callback is not called again; and at that point N! orderings have been
\* presented, the one presented before the loop included.
C8_LoopTerminates ==
    /\ (pc = "loop") ~> LoopEnded
    /\ [][LoopEnded => calls' = calls]_vars
    /\ [][PermuteReturned => calls' = calls]_vars
    /\ [](LoopEnded => (idx = NumFields /\ Len(calls) = Fact(NumFields)))

C8_Witness ==
    /\ LoopEnded
    /\ idx = 4
    /\ Len(calls) = Fact(4)

\* C9: a step that calls the callback again applies one swap of two distinct
\* positions to the working copy (0 and idx when idx is even, c[idx] and idx
\* when idx is odd): the ordering presented differs from the one presented
\* before in exactly those two positions, whose entries are exchanged, and is
\* a rearrangement of the same fields.
C9_OneSwapBetweenCalls ==
    [][(calls # <<>> /\ calls' # calls) =>
          LET prev == calls[Len(calls)]
              cur == calls'[Len(calls')]
              a == IF idx % 2 = 0 THEN 0 ELSE stack[idx]
              b == idx
              diff == {i \in 0..(NumFields - 1) : prev[i] # cur[i]}
          IN  /\ Len(calls') = Len(calls) + 1
              /\ prev = data /\ cur = data'
              /\ a # b
              /\ diff = {a, b}
              /\ Cardinality(diff) = 2
              /\ cur[a] = prev[b] /\ cur[b] = prev[a]
              /\ {cur[i] : i \in 0..(NumFields - 1)} = 0..(NumFields - 1)
      ]_vars

C9_Witness ==
    /\ NumFields = 4
    /\ \E k \in 2..Len(calls) :
        /\ calls[k][3] # calls[k - 1][3]
        /\ calls[k][2] # calls[k - 1][2]

\* C10: while the loop runs and after it, 0 <= idx <= N and 0 <= c[i] <= i
\* for every i (so c[0] = 0); the indices read and swapped at the next step
\* lie in 0..N-1; and c is all zeros when the loop has ended.
C10_IndicesInBounds ==
    (Strict /\ pc \in {"loop", "done"} /\ error = <<>>) =>
        /\ idx \in 0..NumFields
        /\ DOMAIN stack = 0..(NumFields - 1)
        /\ DOMAIN data = 0..(NumFields - 1)
        /\ \A i \in 0..(NumFields - 1) : 0 <= stack[i] /\ stack[i] <= i
        /\ idx < NumFields =>
              /\ stack[idx] \in 0..(NumFields - 1)
              /\ (stack[idx] < idx => idx >= 1)
        /\ idx >= NumFields => \A i \in 0..(NumFields - 1) : stack[i] = 0

C10_Witness ==
    /\ pc = "loop"
    /\ NumFields = 4
    /\ idx = 3
    /\ stack[3] = 3

====
